---- MODULE Spec2Model ----
(***************************************************************************)
(* Asthma risk assessment server (src/app.py): the risk scorer             *)
(* run_future_model and the Flask handlers that call it and persist        *)
(* readings, attacks and alerts as JSON documents.                         *)
(*                                                                         *)
(* Numbers are fixed point with one decimal digit: the model's integer n   *)
(* stands for the Python number n/10 (F(21) is 21.0, 17 is 1.7).           *)
(* Probabilities are counted in units of 1/100000.                         *)
(***************************************************************************)
EXTENDS Integers, Sequences, FiniteSets, TLC

VARIABLES
    future_model,     \* module global: NoModel (None) or a loaded classifier
    FEATURES_FUTURE,  \* module global: the schema, a sequence of feature names
    patient_file,     \* patient.json: missing, or the stored profile
    readings_file,    \* readings.json: the list of readings
    attacks_file,     \* attacks.json: the list of attack records
    alerts_file,      \* alerts.json: the list of alert records
    now,              \* the wall clock, in seconds
    call,             \* the latest run_future_model call: arguments and outcome
    last,             \* the latest request: handler, payload and response
    pc,               \* concurrent requests: each request thread's position
    loc               \* concurrent requests: each request thread's locals

globals == <<future_model, FEATURES_FUTURE>>
files   == <<patient_file, readings_file, attacks_file, alerts_file>>
threads == <<pc, loc>>
vars    == <<future_model, FEATURES_FUTURE, patient_file, readings_file,
             attacks_file, alerts_file, now, call, last, pc, loc>>

-----------------------------------------------------------------------------
(* JSON / Python values                                                    *)

F(x) == x * 10

Absent == [t |-> "absent", n |-> 0, s |-> ""]   \* key not in the dict
Null   == [t |-> "null",   n |-> 0, s |-> ""]   \* JSON null, Python None
Num(n) == [t |-> "num",    n |-> n, s |-> ""]
Str(s) == [t |-> "str",    n |-> 0, s |-> s]

SensorKeys  == {"humidity", "temperature", "mq2", "mq135", "dust_equiv", "dust"}
PatientKeys == {"age", "smoker", "allergy_present", "allergy_type", "occupation"}

EmptySensor  == [k \in SensorKeys |-> Absent]
EmptyPatient == [k \in PatientKeys |-> Absent]

\* An argument that may be None instead of a dict.
Dict(d)     == [none |-> FALSE, d |-> d]
NoneSensor  == [none |-> TRUE, d |-> EmptySensor]
NonePatient == [none |-> TRUE, d |-> EmptyPatient]

\* dict.get(key, default)
Get(d, k, default) == IF d[k].t = "absent" THEN default ELSE d[k]

\* Decimal strings that float() and int() parse.
NumericStrings == "40" :> F(40) @@ "7" :> F(7)

\* float(v): a number, a numeric string, or an exception.
PyFloat(v) ==
    CASE v.t = "num" -> [ok |-> TRUE, n |-> v.n, err |-> ""]
      [] v.t = "str" /\ v.s \in DOMAIN NumericStrings ->
            [ok |-> TRUE, n |-> NumericStrings[v.s], err |-> ""]
      [] v.t = "str" -> [ok |-> FALSE, n |-> 0, err |-> "ValueError"]
      [] OTHER -> [ok |-> FALSE, n |-> 0, err |-> "TypeError"]

\* int(v): truncates a number towards zero.
Trunc(n) == IF n >= 0 THEN (n \div 10) * 10 ELSE 0 - (((0 - n) \div 10) * 10)

PyInt(v) ==
    CASE v.t = "num" -> [ok |-> TRUE, n |-> Trunc(v.n), err |-> ""]
      [] v.t = "str" /\ v.s \in DOMAIN NumericStrings ->
            [ok |-> TRUE, n |-> NumericStrings[v.s], err |-> ""]
      [] v.t = "str" -> [ok |-> FALSE, n |-> 0, err |-> "ValueError"]
      [] OTHER -> [ok |-> FALSE, n |-> 0, err |-> "TypeError"]

-----------------------------------------------------------------------------
(* The classifier and the schema                                           *)

NoModel == "None"
Classifiers == {"xgb_future"}

FeatureNames ==
    <<"humidity", "temperature", "mq2", "mq135", "dust",
      "age", "smoker_level", "allergy_present", "allergy_type", "occupation_risk">>

\* Probabilities the classifier can return, in units of 1/100000.
ProbGrid == <<0, 34999, 35000, 35001, 64999, 65000, 100000>>
Probs == {ProbGrid[i] : i \in 1..Len(ProbGrid)}

RECURSIVE SumSeq(_)
SumSeq(s) == IF s = <<>> THEN 0 ELSE Head(s) + SumSeq(Tail(s))

\* future_model.predict_proba(X)[0][1]: opaque, deterministic in the vector.
predict_proba(vec) ==
    ProbGrid[(((SumSeq(vec) \div 10) + Len(vec)) % Len(ProbGrid)) + 1]

-----------------------------------------------------------------------------
(* run_future_model                                                        *)

NoProbability == -1

\* Mutant: the default profile is whatever profile is stored.
default_patient_Stored ==
    IF patient_file.none
    THEN [age |-> Num(F(21)), smoker |-> Str("Non-smoker"),
          allergy_present |-> Str("No"), allergy_type |-> Str("None"),
          occupation |-> Str("Home/Office")]
    ELSE patient_file.d

default_patient ==
    [age |-> Num(F(21)), smoker |-> Str("Non-smoker"),
     allergy_present |-> Str("No"), allergy_type |-> Str("None"),
     occupation |-> Str("Home/Office")]

smoker_map == "Non-smoker" :> 0 @@ "Passive smoker" :> 1 @@ "Active smoker" :> 2

allergy_type_map ==
    "None" :> 0 @@ "Dust" :> 1 @@ "Pollen" :> 2 @@ "Pets" :> 3 @@ "Other" :> 4

occ_map == "Home/Office" :> 0 @@ "Outdoor/Traffic" :> 1 @@ "Factory/Heavy" :> 2

\* some_map.get(v, 0) for a map keyed by strings
MapGet(m, v) == IF v.t = "str" /\ v.s \in DOMAIN m THEN m[v.s] ELSE 0

\* Mutant: anything but "Non-smoker" counts as a smoker.
smoker_level_Binary(p) ==
    IF Get(p, "smoker", Str("Non-smoker")) = Str("Non-smoker") THEN F(0) ELSE F(1)

smoker_level(p) == F(MapGet(smoker_map, Get(p, "smoker", Str("Non-smoker"))))

\* Mutant: a named allergy type implies an allergy.
allergy_present_FromType(p) ==
    IF \/ Get(p, "allergy_present", Str("No")) = Str("Yes")
       \/ Get(p, "allergy_type", Str("None")) # Str("None")
    THEN F(1) ELSE F(0)

allergy_present(p) ==
    IF Get(p, "allergy_present", Str("No")) = Str("Yes") THEN F(1) ELSE F(0)

allergy_type(p) == F(MapGet(allergy_type_map, Get(p, "allergy_type", Str("None"))))

occupation_risk(p) == F(MapGet(occ_map, Get(p, "occupation", Str("Home/Office"))))

\* Mutant: a missing age defaults to 0, like a missing sensor field.
age_of_Zero(p) == PyFloat(Get(p, "age", Num(0)))

\* float(patient.get("age", 21))
age_of(p) == PyFloat(Get(p, "age", Num(F(21))))

\* patient = patient or default_patient(): None and {} are both falsy
PatientOrDefault(patient) ==
    IF patient.none \/ patient.d = EmptyPatient THEN default_patient ELSE patient.d

\* The five sensor reads, in the order the code makes them.
SensorReads(s) ==
    <<PyFloat(Get(s, "humidity", Num(0))),
      PyFloat(Get(s, "temperature", Num(0))),
      PyFloat(Get(s, "mq2", Num(0))),
      PyFloat(Get(s, "mq135", Num(0))),
      PyFloat(Get(s, "dust_equiv", Get(s, "dust", Num(0))))>>

FirstError(reads) ==
    LET bad == {i \in 1..Len(reads) : ~reads[i].ok}
    IN  IF bad = {} THEN ""
        ELSE reads[CHOOSE i \in bad : \A j \in bad : i <= j].err

feat_map(reads, p) ==
    [humidity |-> reads[1].n, temperature |-> reads[2].n, mq2 |-> reads[3].n,
     mq135 |-> reads[4].n, dust |-> reads[5].n,
     age |-> age_of(p).n,
     smoker_level |-> smoker_level(p), allergy_present |-> allergy_present(p),
     allergy_type |-> allergy_type(p), occupation_risk |-> occupation_risk(p)]

\* Mutant: schema names that are not derived features are skipped.
BuildVec_SkipUnknown(schema, fm) ==
    LET known == SelectSeq(schema, LAMBDA f : f \in DOMAIN fm)
    IN  [i \in 1..Len(known) |-> fm[known[i]]]

\* vec = [float(feat_map.get(f, 0.0)) for f in FEATURES_FUTURE]
BuildVec(schema, fm) ==
    [i \in 1..Len(schema) |->
        IF schema[i] \in DOMAIN fm THEN fm[schema[i]] ELSE F(0)]

LOW_BELOW == 35000
MEDIUM_BELOW == 65000

\* Mutant: the band boundaries are exclusive.
Label_Exclusive(prob) ==
    IF prob <= LOW_BELOW THEN "LOW RISK"
    ELSE IF prob <= MEDIUM_BELOW THEN "MEDIUM RISK"
    ELSE "HIGH RISK"

Label(prob) ==
    IF prob < LOW_BELOW THEN "LOW RISK"
    ELSE IF prob < MEDIUM_BELOW THEN "MEDIUM RISK"
    ELSE "HIGH RISK"

NoFeatures == [k \in {} |-> 0]

Outcome(raised, invoked, prob, label, fm, vec) ==
    [raised |-> raised, invoked |-> invoked, prob |-> prob, label |-> label,
     feat_map |-> fm, vec |-> vec]

Raise(err) == Outcome(err, FALSE, NoProbability, "", NoFeatures, <<>>)

\* Mutant: the guard forgets the schema.
Unavailable_ModelOnly(model, schema) == model = NoModel

\* if future_model is None or not FEATURES_FUTURE
Unavailable(model, schema) == model = NoModel \/ schema = <<>>

run_future_model(model, schema, sensor, patient) ==
    IF Unavailable(model, schema)
    THEN Outcome("", FALSE, NoProbability, "UNKNOWN", NoFeatures, <<>>)
    ELSE IF sensor.none THEN Raise("AttributeError")
    ELSE LET reads == SensorReads(sensor.d)
             p     == PatientOrDefault(patient)
             age   == age_of(p)
         IN  IF FirstError(reads) # "" THEN Raise(FirstError(reads))
             ELSE IF ~age.ok THEN Raise(age.err)
             ELSE LET fm   == feat_map(reads, p)
                      vec  == BuildVec(schema, fm)
                      prob == predict_proba(vec)
                  IN  Outcome("", TRUE, prob, Label(prob), fm, vec)


-----------------------------------------------------------------------------
(* Persistence and the handlers' shared pieces                             *)

\* load_json(path, default): the default when the file is missing or unreadable
load_json(file, default) == IF file.none THEN default ELSE file.d

\* Lines 180-184 and 245-249: the payload's five fields, in the code's order.
ParsePayload(data) ==
    LET reads == <<PyFloat(Get(data, "temperature", Num(0))),
                   PyFloat(Get(data, "humidity", Num(0))),
                   PyInt(Get(data, "mq2", Num(F(1)))),
                   PyInt(Get(data, "mq135", Num(F(1)))),
                   PyFloat(Get(data, "dust_equiv", Get(data, "dust", Num(0))))>>
    IN  [err |-> FirstError(reads), temp |-> reads[1].n, hum |-> reads[2].n,
         mq2 |-> reads[3].n, mq135 |-> reads[4].n, dust |-> reads[5].n]

Reading(ts, parsed) ==
    [timestamp |-> ts, temperature |-> parsed.temp, humidity |-> parsed.hum,
     mq2 |-> parsed.mq2, mq135 |-> parsed.mq135, dust_equiv |-> parsed.dust]

sensor_dict(parsed) ==
    [humidity |-> Num(parsed.hum), temperature |-> Num(parsed.temp),
     mq2 |-> Num(parsed.mq2), mq135 |-> Num(parsed.mq135),
     dust_equiv |-> Num(parsed.dust), dust |-> Absent]

Details(parsed) ==
    <<parsed.temp, parsed.hum, parsed.mq2, parsed.mq135, parsed.dust>>

\* Mutant: the test is for "RISK", which every computed label contains.
HighIn_Risk(label) == label \in {"LOW RISK", "MEDIUM RISK", "HIGH RISK"}

\* "HIGH" in label
HighIn(label) == label = "HIGH RISK"

\* if prob is not None and "HIGH" in label
LogsHigh(out) == out.prob # NoProbability /\ HighIn(out.label)

AttackRecord(ts, out, parsed) ==
    [timestamp |-> ts, probability |-> out.prob, risk_label |-> out.label,
     details |-> Details(parsed)]

AlertRecord(ts, parsed) ==
    [timestamp |-> ts, message |-> "HIGH Immediate Asthma Risk Detected!",
     details |-> Details(parsed)]

Called(sensor, patient) ==
    [made |-> TRUE, sensor |-> sensor, patient |-> patient,
     out |-> run_future_model(future_model, FEATURES_FUTURE, sensor, patient)]

NoCall ==
    [made |-> FALSE, sensor |-> NoneSensor, patient |-> NonePatient,
     out |-> Raise("")]

Request(op, data, status, ts) ==
    [op |-> op, data |-> data, status |-> status, timestamp |-> ts]

NoRequest == Request("", EmptySensor, "", 0)

StatusOf(out) == IF out.raised = "" THEN "ok" ELSE out.raised

-----------------------------------------------------------------------------
(* Bounds and input sets                                                   *)

MaxSchemaLen == 2      \* schema length in the scoring specification
MaxPatientFields == 2  \* keys present in a drawn patient profile
MaxReadings == 2       \* /api/sensor payloads handled
NumClients == 2        \* concurrent /api/sensor requests

Clients == 1..NumClients

SchemaNames == {FeatureNames[i] : i \in 1..Len(FeatureNames)} \cup {"bogus"}

Schemas ==
    UNION {[1..n -> SchemaNames] : n \in 0..MaxSchemaLen} \cup {FeatureNames}

SensorInputs ==
    {NoneSensor} \cup
    {Dict(d) : d \in
        [humidity : {Absent, Num(F(60)), Str("abc")},
         temperature : {Absent, Num(F(30))},
         mq2 : {Absent, Num(F(7))},
         mq135 : {Absent, Num(F(1))},
         dust_equiv : {Absent, Num(F(95))},
         dust : {Absent, Num(F(50))}]}

PatientDicts ==
    [age : {Absent, Null, Num(F(40))},
     smoker : {Absent, Null, Str("Passive smoker"), Str("Active smoker"),
               Str("Vaper")},
     allergy_present : {Absent, Null, Str("Yes"), Str("yes")},
     allergy_type : {Absent, Null, Str("Dust"), Str("Pollen"), Str("Pets"),
                     Str("Other"), Str("Mold")},
     occupation : {Absent, Null, Str("Outdoor/Traffic"), Str("Factory/Heavy"),
                   Str("Pilot")}]

Present(d) == {k \in DOMAIN d : d[k].t # "absent"}

PatientInputs ==
    {NonePatient} \cup
    {Dict(d) : d \in {e \in PatientDicts : Cardinality(Present(e)) <= MaxPatientFields}}

\* The profile's explicit defaults are drawn through default_patient itself.
SampleSensors ==
    {Dict([EmptySensor EXCEPT !["mq2"] = Num(F(7)), !["dust"] = Num(F(50))])}

SamplePatients ==
    {NonePatient, Dict(default_patient),
     Dict([EmptyPatient EXCEPT !["age"] = Num(F(40))]),
     Dict([age |-> Num(F(40)), smoker |-> Str("Active smoker"),
           allergy_present |-> Str("Yes"), allergy_type |-> Str("Pollen"),
           occupation |-> Str("Factory/Heavy")])}

ScoreInputs ==
    (SensorInputs \X SamplePatients) \cup (SampleSensors \X PatientInputs)

AppSchemas == {<<>>, FeatureNames}

\* An empty payload, one with both dust keys and a fractional gas reading, and
\* a malformed one.
GoodPayloads ==
    {EmptySensor,
     [humidity |-> Num(F(60)), temperature |-> Num(302), mq2 |-> Num(17),
      mq135 |-> Absent, dust_equiv |-> Num(F(95)), dust |-> Num(F(50))]}

Payloads == GoodPayloads \cup {[EmptySensor EXCEPT !["humidity"] = Str("abc")]}

Forms ==
    {EmptyPatient,
     [EmptyPatient EXCEPT !["age"] = Str("40")],
     [EmptyPatient EXCEPT !["age"] = Str("abc"), !["smoker"] = Str("Active smoker")]}

DirectPatients == {NonePatient, Dict([EmptyPatient EXCEPT !["age"] = Num(F(40))])}

\* patient.json at start: missing, or a profile an earlier run saved.
InitialProfiles ==
    {NonePatient,
     Dict([age |-> Num(F(40)), smoker |-> Str("Passive smoker"),
           allergy_present |-> Str("Yes"), allergy_type |-> Str("Dust"),
           occupation |-> Str("Outdoor/Traffic")])}

IdleThreads ==
    /\ pc = [c \in Clients |-> "idle"]
    /\ loc = [c \in Clients |-> [parsed |-> ParsePayload(EmptySensor), ts |-> 0,
                                 list |-> <<>>, out |-> Raise("")]]

EmptyFiles ==
    /\ patient_file \in InitialProfiles
    /\ readings_file = <<>>
    /\ attacks_file = <<>>
    /\ alerts_file = <<>>

\* Lines 64-72: both globals are set by a successful load, both reset otherwise.
LoadModel(schemas) ==
    \/ future_model = NoModel /\ FEATURES_FUTURE = <<>>
    \/ future_model \in Classifiers /\ FEATURES_FUTURE \in schemas

-----------------------------------------------------------------------------
(* Scoring in isolation: module load, then one call on arbitrary inputs    *)

InitScore ==
    /\ LoadModel(Schemas)
    /\ EmptyFiles
    /\ patient_file = NonePatient
    /\ now = 0
    /\ call = NoCall
    /\ last = NoRequest
    /\ IdleThreads

Score ==
    /\ ~call.made
    /\ \E in \in ScoreInputs : call' = Called(in[1], in[2])
    /\ UNCHANGED <<globals, files, now, last, threads>>

NextScore == Score

SpecScore == InitScore /\ [][NextScore]_vars

-----------------------------------------------------------------------------
(* The handlers, each handled to completion                                *)

Init ==
    /\ LoadModel(AppSchemas)
    /\ EmptyFiles
    /\ now = 0
    /\ call = NoCall
    /\ last = NoRequest
    /\ IdleThreads

\* POST /api/sensor. The clock is read once, after the payload is parsed: ts is
\* the current second or a later one.
api_sensor(data, ts) ==
    LET parsed  == ParsePayload(data)
        sensor  == Dict(sensor_dict(parsed))
        patient == Dict(load_json(patient_file, default_patient))
        c       == Called(sensor, patient)
    IN  /\ IF parsed.err # ""
           THEN /\ last' = Request("api_sensor", data, parsed.err, now)
                /\ UNCHANGED <<readings_file, attacks_file, alerts_file, call, now>>
           ELSE /\ now' = ts
                /\ readings_file' = Append(readings_file, Reading(ts, parsed))
                /\ call' = c
                /\ last' = Request("api_sensor", data, StatusOf(c.out), ts)
                /\ IF c.out.raised = "" /\ LogsHigh(c.out)
                   THEN /\ attacks_file' =
                              Append(attacks_file, AttackRecord(ts, c.out, parsed))
                        /\ alerts_file' = Append(alerts_file, AlertRecord(ts, parsed))
                   ELSE UNCHANGED <<attacks_file, alerts_file>>
        /\ UNCHANGED <<globals, patient_file, threads>>

ApiSensor ==
    /\ Len(readings_file) < MaxReadings
    /\ \E data \in Payloads, ts \in {now, now + 1} : api_sensor(data, ts)

\* POST /predict
predict_once(data) ==
    LET parsed  == ParsePayload(data)
        sensor  == Dict(sensor_dict(parsed))
        patient == Dict(load_json(patient_file, default_patient))
        c       == Called(sensor, patient)
    IN  /\ IF parsed.err # ""
           THEN /\ last' = Request("predict", data, parsed.err, now)
                /\ UNCHANGED call
           ELSE /\ call' = c
                /\ last' = Request("predict", data, StatusOf(c.out), now)
        /\ UNCHANGED <<globals, files, now, threads>>

PredictOnce == \E data \in Payloads : predict_once(data)

\* GET /dashboard
dashboard ==
    LET latest == readings_file[Len(readings_file)]
        sensor == Dict([humidity |-> Num(latest.humidity),
                        temperature |-> Num(latest.temperature),
                        mq2 |-> Num(latest.mq2), mq135 |-> Num(latest.mq135),
                        dust_equiv |-> Num(latest.dust_equiv), dust |-> Absent])
        patient == Dict(load_json(patient_file, default_patient))
        c       == Called(sensor, patient)
    IN  /\ IF readings_file # <<>> /\ future_model # NoModel
           THEN /\ call' = c
                /\ last' = Request("dashboard", EmptySensor, StatusOf(c.out), now)
           ELSE /\ last' = Request("dashboard", EmptySensor, "ok", now)
                /\ UNCHANGED call
        /\ UNCHANGED <<globals, files, now, threads>>

Dashboard == dashboard

\* POST /update_profile
update_profile(form) ==
    LET d   == load_json(patient_file, default_patient)
        old == Get(d, "age", Num(F(21)))
        age == PyInt(Get(form, "age", old))
        new == [age |-> IF age.ok THEN Num(age.n) ELSE old,
                smoker |-> Get(form, "smoker", Get(d, "smoker", Str("Non-smoker"))),
                allergy_present |->
                    Get(form, "allergy_present", Get(d, "allergy_present", Str("No"))),
                allergy_type |->
                    Get(form, "allergy_type", Get(d, "allergy_type", Str("None"))),
                occupation |->
                    Get(form, "occupation", Get(d, "occupation", Str("Home/Office")))]
    IN  /\ IF ~age.ok /\ age.err # "ValueError"
           THEN /\ last' = Request("update_profile", EmptySensor, age.err, now)
                /\ UNCHANGED patient_file
           ELSE /\ patient_file' = Dict(new)
                /\ last' = Request("update_profile", EmptySensor, "ok", now)
        /\ UNCHANGED <<globals, readings_file, attacks_file, alerts_file, now,
                       call, threads>>

UpdateProfile == \E form \in Forms : update_profile(form)

\* Any other caller of the scorer.
ScoreCall ==
    /\ \E sensor \in SampleSensors, patient \in DirectPatients :
          call' = Called(sensor, patient)
    /\ last' = Request("score", EmptySensor, "ok", now)
    /\ UNCHANGED <<globals, files, now, threads>>

Next == ApiSensor \/ PredictOnce \/ Dashboard \/ UpdateProfile \/ ScoreCall

Spec == Init /\ [][Next]_vars

-----------------------------------------------------------------------------
(* /api/sensor requests handled by concurrent threads: one step per file   *)
(* access. save_json opens the file for writing, which truncates it, and   *)
(* then dumps the list; load_json of a truncated file returns the default. *)

Goto(c, label) == pc' = [pc EXCEPT ![c] = label]

\* Lines 178-196: parse the payload and read the clock.
Receive(c) ==
    /\ pc[c] = "idle"
    /\ \E data \in GoodPayloads, ts \in {now, now + 1} :
          /\ now' = ts
          /\ loc' = [loc EXCEPT ![c].parsed = ParsePayload(data), ![c].ts = ts]
    /\ Goto(c, "load_readings")
    /\ UNCHANGED <<globals, files, call, last>>

\* Lines 198-199: readings = load_json(...); readings.append(reading)
LoadReadings(c) ==
    /\ pc[c] = "load_readings"
    /\ loc' = [loc EXCEPT ![c].list =
                  Append(readings_file, Reading(loc[c].ts, loc[c].parsed))]
    /\ Goto(c, "open_readings")
    /\ UNCHANGED <<globals, files, now, call, last>>

\* Line 200, save_json: open(path, "w")
OpenReadings(c) ==
    /\ pc[c] = "open_readings"
    /\ readings_file' = <<>>
    /\ Goto(c, "dump_readings")
    /\ UNCHANGED <<globals, patient_file, attacks_file, alerts_file, now, call,
                   last, loc>>

\* Line 200, save_json: json.dump(data, f)
DumpReadings(c) ==
    /\ pc[c] = "dump_readings"
    /\ readings_file' = loc[c].list
    /\ Goto(c, "assess")
    /\ UNCHANGED <<globals, patient_file, attacks_file, alerts_file, now, call,
                   last, loc>>

\* Lines 203-214: load the patient, score, decide whether to log.
Assess(c) ==
    LET r == Called(Dict(sensor_dict(loc[c].parsed)),
                    Dict(load_json(patient_file, default_patient)))
    IN  /\ pc[c] = "assess"
        /\ call' = r
        /\ loc' = [loc EXCEPT ![c].out = r.out]
        /\ Goto(c, IF r.out.raised # "" THEN "failed"
                   ELSE IF LogsHigh(r.out) THEN "load_attacks" ELSE "done")
        /\ UNCHANGED <<globals, files, now, last>>

\* Lines 215-221
LoadAttacks(c) ==
    /\ pc[c] = "load_attacks"
    /\ loc' = [loc EXCEPT ![c].list =
                  Append(attacks_file,
                         AttackRecord(loc[c].ts, loc[c].out, loc[c].parsed))]
    /\ Goto(c, "open_attacks")
    /\ UNCHANGED <<globals, files, now, call, last>>

\* Line 222
OpenAttacks(c) ==
    /\ pc[c] = "open_attacks"
    /\ attacks_file' = <<>>
    /\ Goto(c, "dump_attacks")
    /\ UNCHANGED <<globals, patient_file, readings_file, alerts_file, now, call,
                   last, loc>>

DumpAttacks(c) ==
    /\ pc[c] = "dump_attacks"
    /\ attacks_file' = loc[c].list
    /\ Goto(c, "load_alerts")
    /\ UNCHANGED <<globals, patient_file, readings_file, alerts_file, now, call,
                   last, loc>>

\* Lines 224-229
LoadAlerts(c) ==
    /\ pc[c] = "load_alerts"
    /\ loc' = [loc EXCEPT ![c].list =
                  Append(alerts_file, AlertRecord(loc[c].ts, loc[c].parsed))]
    /\ Goto(c, "open_alerts")
    /\ UNCHANGED <<globals, files, now, call, last>>

\* Line 230
OpenAlerts(c) ==
    /\ pc[c] = "open_alerts"
    /\ alerts_file' = <<>>
    /\ Goto(c, "dump_alerts")
    /\ UNCHANGED <<globals, patient_file, readings_file, attacks_file, now, call,
                   last, loc>>

DumpAlerts(c) ==
    /\ pc[c] = "dump_alerts"
    /\ alerts_file' = loc[c].list
    /\ Goto(c, "done")
    /\ UNCHANGED <<globals, patient_file, readings_file, attacks_file, now, call,
                   last, loc>>

NextConc ==
    \E c \in Clients :
        \/ Receive(c)
        \/ LoadReadings(c)
        \/ OpenReadings(c)
        \/ DumpReadings(c)
        \/ Assess(c)
        \/ LoadAttacks(c)
        \/ OpenAttacks(c)
        \/ DumpAttacks(c)
        \/ LoadAlerts(c)
        \/ OpenAlerts(c)
        \/ DumpAlerts(c)

SpecConc == Init /\ [][NextConc]_vars

-----------------------------------------------------------------------------
(* Properties                                                              *)

Loaded == future_model # NoModel /\ FEATURES_FUTURE # <<>>

\* A sensor argument that is a dict whose fields are numbers where present.
SensorWellTyped(sensor) ==
    /\ ~sensor.none
    /\ \A k \in SensorKeys : sensor.d[k].t \in {"absent", "num"}

\* The profile the call was given, None read as a profile with no fields.
Given(patient) == IF patient.none THEN EmptyPatient ELSE patient.d

(* C1: when the classifier is None or the schema is empty, every call,     *)
(* whatever its sensor and patient (None and malformed included), returns  *)
(* (None, "UNKNOWN") without raising and without invoking the classifier.  *)
C1_UnavailableIsUnknown ==
    (call.made /\ (future_model = NoModel \/ FEATURES_FUTURE = <<>>)) =>
        /\ call.out.raised = ""
        /\ ~call.out.invoked
        /\ call.out.prob = NoProbability
        /\ call.out.label = "UNKNOWN"

C1_Witness ==
    /\ call.made
    /\ future_model # NoModel
    /\ FEATURES_FUTURE = <<>>
    /\ call.sensor.none
    /\ call.patient.none
    /\ call.out.label = "UNKNOWN"

(* C2: the label is LOW RISK exactly when p < 0.35, MEDIUM RISK exactly    *)
(* when 0.35 <= p < 0.65 and HIGH RISK exactly when p >= 0.65, and the     *)
(* probability returned is the classifier's p.                             *)
C2_LabelBands ==
    call.out.invoked =>
        LET p == call.out.prob
        IN  /\ p = predict_proba(call.out.vec)
            /\ (call.out.label = "LOW RISK") <=> (p < 35000)
            /\ (call.out.label = "MEDIUM RISK") <=> (35000 <= p /\ p < 65000)
            /\ (call.out.label = "HIGH RISK") <=> (p >= 65000)

C2_Witness ==
    /\ call.out.invoked
    /\ call.out.prob = 35000
    /\ call.out.label = "MEDIUM RISK"

(* C3: the vector passed to the classifier has the schema's length, and    *)
(* its i-th entry is the derived value of the i-th schema name, or 0.0     *)
(* when that name is not one of the ten derived features.                  *)
C3_VectorFollowsSchema ==
    call.out.invoked =>
        /\ Len(call.out.vec) = Len(FEATURES_FUTURE)
        /\ \A i \in 1..Len(FEATURES_FUTURE) :
              call.out.vec[i] =
                  IF FEATURES_FUTURE[i] \in
                        {"humidity", "temperature", "mq2", "mq135", "dust", "age",
                         "smoker_level", "allergy_present", "allergy_type",
                         "occupation_risk"}
                  THEN call.out.feat_map[FEATURES_FUTURE[i]]
                  ELSE 0

C3_Witness ==
    /\ call.out.invoked
    /\ FEATURES_FUTURE = <<"bogus", "age">>
    /\ call.out.vec = <<0, F(40)>>

SmokerCode(v) ==
    CASE v = Str("Passive smoker") -> 1
      [] v = Str("Active smoker") -> 2
      [] OTHER -> 0

AllergyTypeCode(v) ==
    CASE v = Str("Dust") -> 1
      [] v = Str("Pollen") -> 2
      [] v = Str("Pets") -> 3
      [] v = Str("Other") -> 4
      [] OTHER -> 0

OccupationCode(v) ==
    CASE v = Str("Outdoor/Traffic") -> 1
      [] v = Str("Factory/Heavy") -> 2
      [] OTHER -> 0

(* C4: smoker_level is 0/1/2 for Non-smoker/Passive smoker/Active smoker,  *)
(* allergy_present is 1 for exactly "Yes", allergy_type is 0..4 for        *)
(* None/Dust/Pollen/Pets/Other, occupation_risk is 0/1/2 for Home/Office,  *)
(* Outdoor/Traffic, Factory/Heavy; any other value encodes to 0, and no    *)
(* categorical value makes the call raise.                                 *)
C4_CategoricalEncodings ==
    LET p == Given(call.patient)
    IN  /\ call.out.invoked =>
              /\ call.out.feat_map.smoker_level = F(SmokerCode(p.smoker))
              /\ call.out.feat_map.allergy_present =
                    (IF p.allergy_present = Str("Yes") THEN F(1) ELSE F(0))
              /\ call.out.feat_map.allergy_type = F(AllergyTypeCode(p.allergy_type))
              /\ call.out.feat_map.occupation_risk = F(OccupationCode(p.occupation))
        /\ (call.made /\ Loaded /\ SensorWellTyped(call.sensor)
                /\ p.age.t \in {"absent", "num"}) =>
              call.out.raised = ""

C4_Witness ==
    /\ call.out.invoked
    /\ call.patient.d.smoker = Str("Vaper")
    /\ call.patient.d.allergy_type = Str("Other")
    /\ call.out.feat_map.smoker_level = 0
    /\ call.out.feat_map.allergy_type = F(4)

(* C5 as claimed: with classifier and schema loaded, a patient that is    *)
(* None or empty, or has any of its fields missing or null, never makes    *)
(* the call raise, and a missing or null field takes its default: age 21,  *)
(* encodings 0.                                                            *)
C5_MissingOrNullDefaults ==
    LET p == Given(call.patient)
        gone(k) == p[k].t \in {"absent", "null"}
    IN  (call.made /\ Loaded /\ SensorWellTyped(call.sensor)) =>
            /\ call.out.raised = ""
            /\ gone("age") => call.out.feat_map.age = F(21)
            /\ gone("smoker") => call.out.feat_map.smoker_level = 0
            /\ gone("allergy_present") => call.out.feat_map.allergy_present = 0
            /\ gone("allergy_type") => call.out.feat_map.allergy_type = 0
            /\ gone("occupation") => call.out.feat_map.occupation_risk = 0

(* C5 as amended: with classifier and schema loaded, a patient that is     *)
(* None or empty, or has any of its fields missing or any categorical      *)
(* field null, never makes the call raise; a missing age is 21, a missing  *)
(* or null categorical field encodes to 0, and an absent patient gives the *)
(* outcome of the default profile. A null age is not defaulted: the call   *)
(* raises TypeError.                                                       *)
C5_MissingDefaultsNullAgeRaises ==
    LET p == Given(call.patient)
        gone(k) == p[k].t \in {"absent", "null"}
        base == call.made /\ Loaded /\ SensorWellTyped(call.sensor)
    IN  /\ (base /\ p.age.t # "null") =>
              /\ call.out.raised = ""
              /\ p.age.t = "absent" => call.out.feat_map.age = F(21)
              /\ gone("smoker") => call.out.feat_map.smoker_level = 0
              /\ gone("allergy_present") => call.out.feat_map.allergy_present = 0
              /\ gone("allergy_type") => call.out.feat_map.allergy_type = 0
              /\ gone("occupation") => call.out.feat_map.occupation_risk = 0
        /\ (base /\ p.age.t = "null") => call.out.raised = "TypeError"
        /\ (base /\ (call.patient.none \/ call.patient.d = EmptyPatient)) =>
              call.out = run_future_model(future_model, FEATURES_FUTURE,
                                          call.sensor, Dict(default_patient))

C5_Witness ==
    /\ call.out.invoked
    /\ ~call.patient.none
    /\ call.patient.d.age = Absent
    /\ call.patient.d.smoker = Null
    /\ call.patient.d.occupation = Str("Factory/Heavy")
    /\ call.out.feat_map.age = F(21)
    /\ call.out.feat_map.smoker_level = 0

(* C6: a sensor field that is missing is treated as 0, and dust is taken   *)
(* from dust_equiv, else from dust, else 0: in the features the scorer     *)
(* derives, in the reading /api/sensor stores and scores, and in the       *)
(* sensor /predict scores.                                                 *)
C6_MissingSensorFieldsAreZero ==
    LET data    == last.data
        parsed  == ParsePayload(data)
        reading == readings_file[Len(readings_file)]
        missing(k) == data[k] = Absent
        nodust  == missing("dust_equiv") /\ missing("dust")
    IN  /\ call.out.invoked =>
              /\ \A k \in {"humidity", "temperature", "mq2", "mq135"} :
                    call.sensor.d[k] = Absent => call.out.feat_map[k] = 0
              /\ call.out.feat_map.dust =
                    (IF call.sensor.d.dust_equiv # Absent
                     THEN call.sensor.d.dust_equiv.n
                     ELSE IF call.sensor.d.dust # Absent
                     THEN call.sensor.d.dust.n ELSE 0)
        /\ (last.op = "api_sensor" /\ parsed.err = "") =>
              /\ \A k \in {"humidity", "temperature", "mq2", "mq135"} :
                    missing(k) => reading[k] = 0 /\ call.sensor.d[k] = Num(0)
              /\ nodust => reading.dust_equiv = 0 /\ call.sensor.d.dust_equiv = Num(0)
        /\ (last.op = "predict" /\ parsed.err = "") =>
              /\ \A k \in {"humidity", "temperature", "mq2", "mq135"} :
                    missing(k) => call.sensor.d[k] = Num(0)
              /\ nodust => call.sensor.d.dust_equiv = Num(0)

\* The input fields that feed a derived feature.
Feeds(name) ==
    CASE name \in {"humidity", "temperature", "mq2", "mq135"} -> {name}
      [] name = "dust" -> {"dust_equiv", "dust"}
      [] name = "age" -> {"age"}
      [] name = "smoker_level" -> {"smoker"}
      [] name \in {"allergy_present", "allergy_type"} -> {name}
      [] name = "occupation_risk" -> {"occupation"}
      [] OTHER -> {}

Fed == UNION {Feeds(FEATURES_FUTURE[i]) : i \in 1..Len(FEATURES_FUTURE)}

\* The input with every field that feeds no schema-named feature removed.
Erase(d) == [k \in DOMAIN d |-> IF k \in Fed THEN d[k] ELSE Absent]

IsPrefix(s, t) == Len(s) <= Len(t) /\ s = SubSeq(t, 1, Len(s))

(* C9: with requests handled one after another, the attack log and the     *)
(* alert log each gain exactly one record, stamped with the payload's      *)
(* timestamp, when an /api/sensor payload is assessed HIGH RISK            *)
(* (probability present and >= 0.65) and none otherwise; the logs have the *)
(* same length; /predict and the dashboard write to neither.               *)
C9_LogsGrowInLockstep ==
    /\ [](/\ Len(attacks_file) = Len(alerts_file)
          /\ \A i \in 1..Len(attacks_file) :
                /\ attacks_file[i].timestamp = alerts_file[i].timestamp
                /\ attacks_file[i].risk_label = "HIGH RISK"
                /\ attacks_file[i].probability >= 65000)
    /\ [][LET high == /\ last'.op = "api_sensor"
                      /\ last'.status = "ok"
                      /\ call'.out.prob # NoProbability
                      /\ call'.out.prob >= 65000
              n    == Len(attacks_file)
          IN  /\ IsPrefix(attacks_file, attacks_file')
              /\ IsPrefix(alerts_file, alerts_file')
              /\ Len(attacks_file') = IF high THEN n + 1 ELSE n
              /\ Len(alerts_file') = IF high THEN n + 1 ELSE n
              /\ high => /\ attacks_file'[n + 1].timestamp = last'.timestamp
                         /\ alerts_file'[n + 1].timestamp = last'.timestamp
                         /\ attacks_file'[n + 1].probability = call'.out.prob]_vars

C9_Witness ==
    /\ Len(readings_file) = 2
    /\ Len(attacks_file) = 1
    /\ Len(alerts_file) = 1
    /\ last.op = "api_sensor"
    /\ last.status = "ok"
    /\ call.out.label # "HIGH RISK"

(* C10: the readings log is append-only: once every request has been       *)
(* handled, in any interleaving of the requests' load, append and save,    *)
(* the log holds one reading per request.                                  *)
C10_OneReadingPerRequest ==
    (\A c \in Clients : pc[c] \in {"done", "failed"}) =>
        Len(readings_file) = NumClients

====
